---- MODULE Spec2Model ----
(***************************************************************************)
(* A model of src/tui.py: the list selector select_option, the text viewer *)
(* display_text, and the menu session main that composes them under        *)
(* curses.wrapper.                                                         *)
(*                                                                         *)
(* Python strings are sequences of one-character strings, so that          *)
(* str.lower(), chr() and the substring test `in` are computed, not        *)
(* assumed.  A list item is such a string; a tuple item of main is         *)
(* represented by the characters of its first field.                       *)
(***************************************************************************)
EXTENDS Integers, Sequences, FiniteSets, TLC

VARIABLES
    term_rows,          \* height of the terminal, what stdscr.getmaxyx() gives
    term_cols,          \* width of the terminal, what stdscr.getmaxyx() gives
    terminal,           \* mode of the terminal: "curses" (noecho, cbreak) as
                        \* curses.wrapper sets it, "echo" after curses.echo(),
                        \* "restored" after the wrapper has left curses
    title,              \* select_option: parameter title
    options,            \* select_option: parameter options (the caller's list)
    get_label,          \* select_option: parameter get_label (name of the lambda)
    include_back,       \* select_option: parameter
    include_exit,       \* select_option: parameter
    search_enabled,     \* select_option: parameter
    skip_items,         \* select_option: local skip_items (line 116)
    original_options,   \* select_option: local
    filtered_options,   \* select_option: local
    search_query,       \* select_option: local
    current_row,        \* select_option: local
    scroll_pos,         \* select_option: local
    max_visible_items,  \* select_option: local (line 130)
    visible_options,    \* select_option: local (line 141), the rows drawn last
    key,                \* select_option: local, the key read last
    sel_pc,             \* select_option: "render", "getch", "returned", "raised";
                        \*                "idle" when it was never called
    result,             \* what select_option returned, or the exception raised
    nav_pc,             \* main: "select", "viewer", "no_namespaces", "replicas",
                        \*       "done", "raised"; after curses.wrapper "exited",
                        \*       "crashed"; "standalone" outside main
    level,              \* main: the select_option call that is open or returned last
    environments,       \* main: local, from load_config()
    jump_hosts,         \* main: local, the keys of load_jump_hosts()
    selected_main,      \* main: local
    namespaces,         \* main: local
    selected_namespace, \* main: local
    selected_option,    \* main: local
    action,             \* main: local
    events,             \* main: the placeholder frames it drew and the external
                        \*       calls it made in its latest step, in order
    jumphost_check,     \* main: what is_jumphost_available() gave in this turn
                        \*       of the action loop: "none", "ok", "failed"
    viewer_title,       \* display_text: parameter title, "" when no viewer is open
    lines,              \* display_text: local, text.splitlines()
    current_line,       \* display_text: local
    display_height,     \* display_text: local (line 307)
    max_cols,           \* display_text: local (line 306)
    view_key,           \* display_text: local key, the key read last
    view_query,         \* display_text: local query, the search typed last
    view_shown,         \* display_text: the lines of text drawn last
    view_writes,        \* display_text: the addstr calls that drew them
    view_notice,        \* display_text: "Not found" is on the screen
    view_pc             \* display_text: "idle", "render", "getch", "getstr",
                        \*               "returned", "raised"

sel_vars == <<title, options, get_label, include_back, include_exit,
              search_enabled, skip_items, original_options, filtered_options,
              search_query, current_row, scroll_pos, max_visible_items,
              visible_options, key, sel_pc, result>>

view_vars == <<viewer_title, lines, current_line, display_height, max_cols, view_key,
               view_query, view_shown, view_writes, view_notice, view_pc>>

nav_vars == <<nav_pc, level, environments, jump_hosts, selected_main, namespaces,
              selected_namespace, selected_option, action, events, jumphost_check>>

vars == <<term_rows, term_cols, terminal, sel_vars, view_vars, nav_vars>>

----------------------------------------------------------------------------
(* Bounds of the model *)

MaxQuery == 2       \* longest search query typed
MaxRows == 6        \* tallest terminal
MaxCols == 92       \* widest terminal

----------------------------------------------------------------------------
(* Python values *)

None == <<"None">>
IndexError == <<"IndexError">>
CursesError == <<"curses.error">>

GoBack == <<"G", "o", " ", "B", "a", "c", "k">>
Exit == <<"E", "x", "i", "t">>

\* key codes of the curses library, and the two literal codes of Enter
KEY_DOWN == 258
KEY_UP == 259
KEY_BACKSPACE == 263
KEY_NPAGE == 338
KEY_ENTER == 343
KEY_LF == 10
KEY_CR == 13
KEY_DEL == 127
KEY_PPAGE == 339
KEY_END == 360
KEY_SLASH == 47
NoKey == -1

\* the printable characters, codes 32..126 (code 96 is written "grave")
Ascii ==
  << " ", "!", "\"", "#", "$", "%", "&", "'", "(", ")", "*", "+", ",", "-", ".", "/",
     "0", "1", "2", "3", "4", "5", "6", "7", "8", "9", ":", ";", "<", "=", ">", "?",
     "@", "A", "B", "C", "D", "E", "F", "G", "H", "I", "J", "K", "L", "M", "N", "O",
     "P", "Q", "R", "S", "T", "U", "V", "W", "X", "Y", "Z", "[", "\\", "]", "^", "_",
     "grave", "a", "b", "c", "d", "e", "f", "g", "h", "i", "j", "k", "l", "m", "n", "o",
     "p", "q", "r", "s", "t", "u", "v", "w", "x", "y", "z", "{", "|", "}", "~" >>

\* chr(k) for a printable code k
Chr(k) == Ascii[k - 31]

\* c.lower() for every printable character: code 65..90 becomes code + 32
LowerTable ==
    [c \in {Chr(k) : k \in 32..126} |->
        IF \E k \in 65..90 : Chr(k) = c
        THEN Chr((CHOOSE k \in 65..90 : Chr(k) = c) + 32)
        ELSE c]

LowerChar(c) == LowerTable[c]

\* s.lower()
LowerStr(s) == [i \in 1..Len(s) |-> LowerChar(s[i])]

\* StrContains for `s.startswith(sub)`
StrContains_PrefixOnly(sub, s) ==
    /\ Len(sub) <= Len(s)
    /\ \A j \in 1..Len(sub) : s[j] = sub[j]

\* sub in s, for strings
StrContains(sub, s) ==
    \E i \in 0..(Len(s) - Len(sub)) :
        \A j \in 1..Len(sub) : s[i + j] = sub[j]

Min(a, b) == IF a < b THEN a ELSE b
Max(a, b) == IF a > b THEN a ELSE b

\* a slice bound as Python normalises it: negative counts from the end
SliceBound(i, n) == IF i < 0 THEN Max(i + n, 0) ELSE Min(i, n)

\* s[a:b]
PySlice(s, a, b) ==
    LET lo == SliceBound(a, Len(s))
        hi == SliceBound(b, Len(s))
    IN  IF lo < hi THEN SubSeq(s, lo + 1, hi) ELSE <<>>

\* x in s, for a list s
InList(x, s) == \E i \in 1..Len(s) : s[i] = x

----------------------------------------------------------------------------
(* select_option *)

\* the lambdas main passes as get_label: lines 434 and 487 (identity), 477,
\* 481, 504, 520 and 549 (lower), 439 (the key and its description, which is
\* empty for a jump host of four fields, line 57) and 454 (an environment
\* type, of which the model keeps the first field)
Label(f, opt) ==
    CASE f = "identity" -> opt
      [] f = "lower" -> LowerStr(opt)
      [] f = "jump_host" -> opt \o <<" ", "(", ")">>
      [] f = "env_type" -> LowerStr(opt) \o <<" ", "(", ")">>

\* FilterOptions with the query compared as typed, not lower-cased
FilterOptions_CaseSensitive(orig, f, query) ==
    SelectSeq(orig, LAMBDA opt : StrContains(query, LowerStr(Label(f, opt))))

\* the comprehension of lines 165 and 170
FilterOptions(orig, f, query) ==
    SelectSeq(orig, LAMBDA opt : StrContains(LowerStr(query), LowerStr(Label(f, opt))))

\* WithSentinels with "Exit" put in front of the list
WithSentinels_ExitFirst(opts, back, exit) ==
    LET withBack == IF back /\ ~InList(GoBack, opts) THEN <<GoBack>> \o opts ELSE opts
    IN  IF exit /\ ~InList(Exit, withBack) THEN <<Exit>> \o withBack ELSE withBack

\* lines 120-124: the working copy of the caller's list, with the sentinels
WithSentinels(opts, back, exit) ==
    LET withBack == IF back /\ ~InList(GoBack, opts) THEN <<GoBack>> \o opts ELSE opts
    IN  IF exit /\ ~InList(Exit, withBack) THEN Append(withBack, Exit) ELSE withBack

\* ArgumentAfterCall for `original_options = options`: the insert and the
\* append of lines 122 and 124 change the list of the caller
ArgumentAfterCall_Aliased(opts, back, exit) == WithSentinels(opts, back, exit)

\* line 120: options[:] is a copy, so the list the caller passed is after
\* the call what it was before
ArgumentAfterCall(opts, back, exit) == opts

\* CallSelectOption with query, cursor and scroll offset kept from the
\* invocation before
CallSelectOption_KeepsState(t, opts, f, back, exit, search, skip) ==
    /\ title' = t
    /\ options' = opts
    /\ get_label' = f
    /\ include_back' = back
    /\ include_exit' = exit
    /\ search_enabled' = search
    /\ skip_items' = skip
    /\ original_options' = WithSentinels(opts, back, exit)
    /\ filtered_options' = WithSentinels(opts, back, exit)
    /\ search_query' = search_query
    /\ current_row' = current_row
    /\ scroll_pos' = scroll_pos
    /\ max_visible_items' = term_rows - 4
    /\ visible_options' = <<>>
    /\ key' = NoKey
    /\ sel_pc' = "render"
    /\ result' = None

\* lines 116-130: entry of select_option, up to the loop
CallSelectOption(t, opts, f, back, exit, search, skip) ==
    /\ title' = t
    /\ options' = opts
    /\ get_label' = f
    /\ include_back' = back
    /\ include_exit' = exit
    /\ search_enabled' = search
    /\ skip_items' = skip
    /\ original_options' = WithSentinels(opts, back, exit)
    /\ filtered_options' = WithSentinels(opts, back, exit)
    /\ search_query' = <<>>
    /\ current_row' = 0
    /\ scroll_pos' = 0
    /\ max_visible_items' = term_rows - 4
    /\ visible_options' = <<>>
    /\ key' = NoKey
    /\ sel_pc' = "render"
    /\ result' = None

\* ScrollFor with the window one row too low when the cursor leaves it downwards
ScrollFor_OffByOne(row, scroll, visible) ==
    IF row >= scroll + visible THEN row - visible
    ELSE IF row < scroll THEN row
    ELSE scroll

\* lines 137-140
ScrollFor(row, scroll, visible) ==
    IF row >= scroll + visible THEN row - visible + 1
    ELSE IF row < scroll THEN row
    ELSE scroll

\* lines 133-149: one frame.  addstr raises curses.error for a row that is
\* not on the screen; item idx is drawn on row idx + 3.
Render ==
    /\ sel_pc = "render"
    /\ LET sp == ScrollFor(current_row, scroll_pos, max_visible_items)
           vis == PySlice(filtered_options, sp, sp + max_visible_items)
       IN  /\ scroll_pos' = sp
           /\ visible_options' = vis
           /\ IF \E idx \in 0..(Len(vis) - 1) : idx + 3 >= term_rows
              THEN sel_pc' = "raised" /\ result' = CursesError
              ELSE sel_pc' = "getch" /\ result' = result
    /\ UNCHANGED <<term_rows, term_cols, terminal, title, options, get_label,
                   search_enabled, skip_items, original_options, filtered_options,
                   include_back, include_exit,
                   search_query, current_row, max_visible_items, key, view_vars, nav_vars>>

\* SkipUp with `if` for `while`: one skip item is stepped over, not a run
SkipUp_Once(filtered, skip, row) ==
    IF filtered[row + 1] \in skip /\ row > 0 THEN row - 1 ELSE row

\* lines 153-154
RECURSIVE SkipUp(_, _, _)
SkipUp(filtered, skip, row) ==
    IF filtered[row + 1] \in skip /\ row > 0
    THEN SkipUp(filtered, skip, row - 1)
    ELSE row

\* SkipDown stepping over a skip item without looking for the end of the list
SkipDown_NoBound(filtered, skip, row) ==
    IF filtered[row + 1] \in skip THEN row + 1 ELSE row

\* lines 157-158
RECURSIVE SkipDown(_, _, _)
SkipDown(filtered, skip, row) ==
    IF filtered[row + 1] \in skip /\ row < Len(filtered) - 1
    THEN SkipDown(filtered, skip, row + 1)
    ELSE row

\* CannotConfirm with the skip test left out
CannotConfirm_Never(filtered, skip, row) == FALSE

\* line 160: the item under the cursor cannot be confirmed
CannotConfirm(filtered, skip, row) == filtered[row + 1] \in skip

\* IsEnter with Page-Down taken for a confirming key
IsEnter_AlsoPageDown(k) == k \in {KEY_ENTER, KEY_LF, KEY_CR, KEY_NPAGE}

\* line 159
IsEnter(k) == k \in {KEY_ENTER, KEY_LF, KEY_CR}
IsPrintable(k) == 32 <= k /\ k <= 126
IsBackspace(k) == k \in {KEY_BACKSPACE, KEY_DEL}

\* DropLast for search_query[1:]
DropLast_DropFirst(q) == PySlice(q, 1, Len(q))

\* line 169: search_query[:-1]
DropLast(q) == PySlice(q, 0, -1)

\* lines 150-172: the key k is read and handled
HandleKey(k) ==
    /\ key' = k
    /\ IF k = KEY_UP /\ current_row > 0 THEN
            /\ current_row' = SkipUp(filtered_options, skip_items, current_row - 1)
            /\ sel_pc' = "render"
            /\ UNCHANGED <<filtered_options, search_query, scroll_pos, result>>
       ELSE IF k = KEY_DOWN /\ current_row < Len(filtered_options) - 1 THEN
            /\ current_row' = SkipDown(filtered_options, skip_items, current_row + 1)
            /\ sel_pc' = "render"
            /\ UNCHANGED <<filtered_options, search_query, scroll_pos, result>>
       ELSE IF IsEnter(k) THEN
            /\ IF current_row >= Len(filtered_options)
               THEN sel_pc' = "raised" /\ result' = IndexError
               ELSE IF CannotConfirm(filtered_options, skip_items, current_row)
               THEN sel_pc' = "render" /\ result' = result
               ELSE sel_pc' = "returned" /\ result' = filtered_options[current_row + 1]
            /\ UNCHANGED <<filtered_options, search_query, current_row, scroll_pos>>
       ELSE IF search_enabled /\ IsPrintable(k) THEN
            /\ search_query' = Append(search_query, Chr(k))
            /\ filtered_options' =
                   FilterOptions(original_options, get_label, Append(search_query, Chr(k)))
            /\ current_row' = 0
            /\ scroll_pos' = 0
            /\ sel_pc' = "render"
            /\ result' = result
       ELSE IF search_enabled /\ IsBackspace(k) THEN
            /\ search_query' = DropLast(search_query)
            /\ filtered_options' =
                   FilterOptions(original_options, get_label, DropLast(search_query))
            /\ current_row' = 0
            /\ scroll_pos' = 0
            /\ sel_pc' = "render"
            /\ result' = result
       ELSE
            /\ sel_pc' = "render"
            /\ UNCHANGED <<filtered_options, search_query, current_row, scroll_pos, result>>
    /\ UNCHANGED <<term_rows, term_cols, terminal, title, options, get_label,
                   search_enabled, skip_items, original_options, max_visible_items,
                   include_back, include_exit,
                   visible_options, view_vars, nav_vars>>

\* the keys the model presses
KeyChoices == {KEY_UP, KEY_DOWN, KEY_ENTER, KEY_LF, KEY_CR, KEY_BACKSPACE, KEY_DEL,
               KEY_NPAGE, 97, 108, 65}

\* line 150: getch blocks until a key arrives.  A printable key is offered
\* to a searching selector only while the query is shorter than MaxQuery.
Getch(keys) ==
    /\ sel_pc = "getch"
    /\ \E k \in keys :
          /\ (search_enabled /\ IsPrintable(k)) => Len(search_query) < MaxQuery
          /\ HandleKey(k)

\* no display_text is open
NoViewer ==
    /\ viewer_title = ""
    /\ lines = <<>>
    /\ current_line = 0
    /\ display_height = 0
    /\ max_cols = 0
    /\ view_key = NoKey
    /\ view_query = <<>>
    /\ view_shown = <<>>
    /\ view_writes = <<>>
    /\ view_notice = FALSE
    /\ view_pc = "idle"

----------------------------------------------------------------------------
(* The selector alone, called with arguments from small sets *)

Divider == <<"-", "-", "-">>
ItemX == <<"x">>
ItemY == <<"y">>
Alpha == <<"a", "l", "p", "h", "a">>
Beta == <<"b", "e", "t", "a">>
Gamma == <<"g", "a", "m", "m", "a">>

OptionChoices == { <<>>,
                   <<Divider, ItemX, ItemY>>,
                   <<Alpha, Beta, Gamma>>,
                   <<ItemX, Divider, Divider, ItemY, Divider>> }
SkipChoices == { {}, {Divider, Beta} }
LabelChoices == {"identity", "lower"}
RowChoices == 3..MaxRows

Init ==
    /\ term_rows \in RowChoices
    /\ term_cols = MaxCols
    /\ title = "select"
    /\ options \in OptionChoices
    /\ get_label \in LabelChoices
    /\ include_back \in BOOLEAN
    /\ include_exit \in BOOLEAN
    /\ search_enabled \in BOOLEAN
    /\ skip_items \in SkipChoices
    /\ original_options = WithSentinels(options, include_back, include_exit)
    /\ filtered_options = original_options
    /\ search_query = <<>>
    /\ current_row = 0
    /\ scroll_pos = 0
    /\ max_visible_items = term_rows - 4
    /\ visible_options = <<>>
    /\ key = NoKey
    /\ sel_pc = "render"
    /\ result = None
    /\ nav_pc = "standalone"
    /\ level = "none"
    /\ environments = <<>>
    /\ jump_hosts = <<>>
    /\ selected_main = None
    /\ namespaces = <<>>
    /\ selected_namespace = None
    /\ selected_option = None
    /\ action = None
    /\ events = <<>>
    /\ jumphost_check = "none"
    /\ terminal = "curses"
    /\ NoViewer

Next ==
    \/ Render
    \/ Getch(KeyChoices)

Spec == Init /\ [][Next]_vars

\* keys at both ends of the printable range, and next to it
EditKeyChoices == {31, 32, 97, 126, KEY_DEL, KEY_BACKSPACE, KEY_DOWN, KEY_LF}

\* the selector with search enabled, its query edited
InitEdit ==
    /\ Init
    /\ search_enabled
    /\ options \in { <<>>, <<Alpha, Beta, Gamma>> }
    /\ skip_items = {}

NextEdit ==
    \/ Render
    \/ Getch(EditKeyChoices)

SpecEdit == InitEdit /\ [][NextEdit]_vars

\* the heights of a terminal that has a row for an item
ResizeRowChoices == 5..MaxRows

\* the terminal is given another height while the selector waits in getch
\* (line 150); getmaxyx was called once, before the loop (line 129)
Resize ==
    /\ sel_pc = "getch"
    /\ \E rows \in ResizeRowChoices : rows # term_rows /\ term_rows' = rows
    /\ UNCHANGED <<term_cols, terminal, sel_vars, view_vars, nav_vars>>

ResizeKeyChoices == {KEY_UP, KEY_DOWN, KEY_LF}

\* the selector without search, on a terminal that is resized
InitResize ==
    /\ Init
    /\ term_rows \in ResizeRowChoices
    /\ ~search_enabled
    /\ get_label = "identity"

NextResize ==
    \/ Render
    \/ Getch(ResizeKeyChoices)
    \/ Resize

SpecResize == InitResize /\ [][NextResize]_vars

----------------------------------------------------------------------------
(* display_text *)

Newline == "\n"

\* line 304: text.splitlines(); a newline ends a line, and a text that ends
\* in a newline has no empty last line
RECURSIVE SplitLines(_)
SplitLines(text) ==
    IF text = <<>> THEN <<>>
    ELSE IF \E i \in 1..Len(text) : text[i] = Newline
    THEN LET i == CHOOSE i \in 1..Len(text) :
                      /\ text[i] = Newline
                      /\ \A j \in 1..(i - 1) : text[j] # Newline
         IN  <<SubSeq(text, 1, i - 1)>> \o SplitLines(SubSeq(text, i + 1, Len(text)))
    ELSE <<text>>

\* lines 304-307: entry of display_text, up to the loop
CallDisplayText(t, text) ==
    /\ viewer_title' = t
    /\ lines' = SplitLines(text)
    /\ current_line' = 0
    /\ display_height' = term_rows - 2
    /\ max_cols' = term_cols
    /\ view_key' = NoKey
    /\ view_query' = <<>>
    /\ view_shown' = <<>>
    /\ view_writes' = <<>>
    /\ view_notice' = FALSE
    /\ view_pc' = "render"

\* lines 312-314: the lines of the text that a frame draws
ShownLines(lns, cur, height) ==
    LET n == Max(0, Min(height, Len(lns) - cur))
    IN  [i \in 1..n |-> lns[cur + i]]

\* line 303: the words of the pattern, in the order of the alternation
KwError == <<"e", "r", "r", "o", "r">>
KwWarning == <<"w", "a", "r", "n", "i", "n", "g">>
KwSuccess == <<"s", "u", "c", "c", "e", "s", "s">>
Keywords == <<KwError, KwWarning, KwSuccess>>

\* line 303: the word of the pattern that line holds at index p, whatever
\* the case of its letters (re.IGNORECASE); <<>> when it holds none there
KeywordAt(line, p) ==
    LET fits == {k \in 1..Len(Keywords) :
                    /\ p + Len(Keywords[k]) <= Len(line)
                    /\ LowerStr(SubSeq(line, p + 1, p + Len(Keywords[k]))) = Keywords[k]}
    IN  IF fits = {} THEN <<>>
        ELSE Keywords[CHOOSE k \in fits : \A j \in fits : k <= j]

\* line 317: pattern.finditer(line), the spans of the matches from index p
\* on, leftmost first and not overlapping
RECURSIVE FindIter(_, _)
FindIter(line, p) ==
    LET starts == {q \in p..(Len(line) - 1) : KeywordAt(line, q) # <<>>}
    IN  IF starts = {} THEN <<>>
        ELSE LET q == CHOOSE q \in starts : \A r \in starts : q <= r
                 word == KeywordAt(line, q)
             IN  <<[start |-> q, end |-> q + Len(word)]>>
                    \o FindIter(line, q + Len(word))

\* lines 322-329: the colour pair of a matched word, 0 for curses.A_NORMAL
ColorOf(word) ==
    IF word = KwError THEN 1
    ELSE IF word = KwWarning THEN 2
    ELSE IF word = KwSuccess THEN 3
    ELSE 0

\* lines 317-337: the addstr calls for one line on row, with col and pos as
\* the loop over the matches has left them
RECURSIVE SegmentWrites(_, _, _, _, _, _)
SegmentWrites(line, matches, row, col, pos, cols) ==
    IF matches = <<>>
    THEN IF pos < Len(line) /\ col < cols - 1
         THEN <<[row |-> row, col |-> col, color |-> 0,
                 text |-> PySlice(PySlice(line, pos, Len(line)), 0, cols - col - 1)]>>
         ELSE <<>>
    ELSE LET match == Head(matches)
             plain == PySlice(line, pos, match.start)
             before == IF match.start > pos
                       THEN <<[row |-> row, col |-> col, color |-> 0,
                               text |-> PySlice(plain, 0, cols - col - 1)]>>
                       ELSE <<>>
             col1 == IF match.start > pos THEN col + Len(plain) ELSE col
             keyword == PySlice(line, match.start, match.end)
             word == IF col1 < cols - 1
                     THEN <<[row |-> row, col |-> col1, color |-> ColorOf(LowerStr(keyword)),
                             text |-> PySlice(keyword, 0, cols - col1 - 1)]>>
                     ELSE <<>>
             col2 == IF col1 < cols - 1 THEN col1 + Len(keyword) ELSE col1
         IN  before \o word \o SegmentWrites(line, Tail(matches), row, col2, match.end, cols)

\* lines 312-337: the addstr calls for the lines of a frame, line i on row i + 1
RECURSIVE FrameWrites(_, _, _)
FrameWrites(shown, i, cols) ==
    IF i >= Len(shown) THEN <<>>
    ELSE SegmentWrites(shown[i + 1], FindIter(shown[i + 1], 0), i + 1, 0, 0, cols)
            \o FrameWrites(shown, i + 1, cols)

\* addstr raises curses.error when the column is not on the screen
OffScreen(write, cols) == write.col >= cols

\* the calls up to the first that raises, that one included
RECURSIVE UntilRaise(_, _)
UntilRaise(writes, cols) ==
    IF writes = <<>> THEN <<>>
    ELSE IF OffScreen(Head(writes), cols) THEN <<Head(writes)>>
    ELSE <<Head(writes)>> \o UntilRaise(Tail(writes), cols)

\* line 338: the length of the key help; written on the last row, it
\* raises curses.error when it reaches the last column
FooterLength == 90

\* lines 310-339: one frame; clear() wipes the notice of the frame before
ViewRender ==
    /\ view_pc = "render"
    /\ LET shown == ShownLines(lines, current_line, display_height)
           writes == UntilRaise(FrameWrites(shown, 0, max_cols), max_cols)
       IN  /\ view_shown' = shown
           /\ view_writes' = writes
           /\ IF \/ \E i \in 1..Len(writes) : OffScreen(writes[i], max_cols)
                 \/ FooterLength >= max_cols
              THEN view_pc' = "raised"
              ELSE view_pc' = "getch"
    /\ view_notice' = FALSE
    /\ UNCHANGED <<term_rows, term_cols, terminal, viewer_title, lines, current_line,
                   display_height, max_cols, view_key, view_query, sel_vars, nav_vars>>

\* PageDownLine without the stop at the last page
PageDownLine_NoClamp(cur, n, height) == cur + height

\* line 346
PageDownLine(cur, n, height) == Min(cur + height, Max(0, n - height))

\* line 348
PageUpLine(cur, height) == Max(cur - height, 0)

\* line 350
EndLine(n, height) == Max(0, n - height)

\* lines 341-366: the key k is read and handled.  On '/' the viewer goes on
\* into get_user_input, where curses.echo() is called (line 290) and getstr
\* blocks (line 293).
ViewHandleKey(k) ==
    /\ view_key' = k
    /\ IF k = KEY_UP /\ current_line > 0 THEN
            /\ current_line' = current_line - 1
            /\ view_pc' = "render"
            /\ UNCHANGED terminal
       ELSE IF k = KEY_DOWN /\ current_line < Len(lines) - display_height THEN
            /\ current_line' = current_line + 1
            /\ view_pc' = "render"
            /\ UNCHANGED terminal
       ELSE IF k = KEY_NPAGE THEN
            /\ current_line' = PageDownLine(current_line, Len(lines), display_height)
            /\ view_pc' = "render"
            /\ UNCHANGED terminal
       ELSE IF k = KEY_PPAGE THEN
            /\ current_line' = PageUpLine(current_line, display_height)
            /\ view_pc' = "render"
            /\ UNCHANGED terminal
       ELSE IF k = KEY_END THEN
            /\ current_line' = EndLine(Len(lines), display_height)
            /\ view_pc' = "render"
            /\ UNCHANGED terminal
       ELSE IF k = KEY_SLASH THEN
            /\ view_pc' = "getstr"
            /\ terminal' = "echo"
            /\ UNCHANGED current_line
       ELSE
            /\ view_pc' = "returned"
            /\ UNCHANGED <<current_line, terminal>>
    /\ UNCHANGED <<term_rows, term_cols, viewer_title, lines, display_height, max_cols,
                   view_query, view_shown, view_writes,
                   view_notice, sel_vars, nav_vars>>

\* line 340: getch blocks until a key arrives
ViewGetch(keys) ==
    /\ view_pc = "getch"
    /\ \E k \in keys : ViewHandleKey(k)

\* FirstMatch with the text searched from its first line, not from idx
FirstMatch_FromTop(lns, q, idx) ==
    LET hits == {i \in 0..(Len(lns) - 1) : StrContains(LowerStr(q), LowerStr(lns[i + 1]))}
    IN  IF hits = {} THEN -1 ELSE CHOOSE i \in hits : \A j \in hits : i <= j

\* lines 356-360: the first index from idx on whose line holds the query,
\* both lower-cased; -1 when the loop ends without one
RECURSIVE FirstMatch(_, _, _)
FirstMatch(lns, q, idx) ==
    IF idx >= Len(lns) THEN -1
    ELSE IF StrContains(LowerStr(q), LowerStr(lns[idx + 1])) THEN idx
    ELSE FirstMatch(lns, q, idx + 1)

\* lines 293-294 and 355-364: getstr returns what was typed, curses.noecho()
\* is called, and the text is searched from the top line on
ViewSearch(typed) ==
    /\ view_pc = "getstr"
    /\ view_query' = typed
    /\ terminal' = "curses"
    /\ LET idx == FirstMatch(lines, typed, current_line)
       IN  IF idx >= 0
           THEN current_line' = idx /\ view_notice' = FALSE
           ELSE current_line' = current_line /\ view_notice' = TRUE
    /\ view_pc' = "render"
    /\ UNCHANGED <<term_rows, term_cols, viewer_title, lines, display_height, max_cols,
                   view_key, view_shown, view_writes,
                   sel_vars, nav_vars>>

\* line 293: getstr is interrupted, or what was typed cannot be decoded;
\* the exception leaves get_user_input before curses.noecho()
ViewGetstrRaises ==
    /\ view_pc = "getstr"
    /\ view_pc' = "raised"
    /\ UNCHANGED <<term_rows, term_cols, terminal, viewer_title, lines, current_line,
                   display_height, max_cols, view_key, view_query, view_shown,
                   view_writes, view_notice, sel_vars, nav_vars>>

----------------------------------------------------------------------------
(* The viewer alone, called with a text and a terminal from small sets *)

\* "a\nB\nc\nab\nc"
TextSmall == <<"a", Newline, "B", Newline, "c", Newline, "a", "b", Newline, "c">>

\* fifty lines "e"
TextLong == [i \in 1..100 |-> IF i % 2 = 1 THEN "e" ELSE Newline]

\* one line wider than the terminal: letters, "Error", "abcd", "error"
TextWide ==
    [i \in 1..(MaxCols + 2) |-> "x"] \o <<"E", "r", "r", "o", "r">>
        \o <<"a", "b", "c", "d">> \o KwError

\* "ok success x": a word of the pattern inside a short line
TextShort ==
    <<"o", "k", " ">> \o KwSuccess \o <<" ", "x">>

TextChoices == { <<>>, TextSmall, TextLong, TextWide, TextShort }
QueryChoices == { <<>>, <<"a">>, <<"B">>, <<"z">> }

\* a terminal of one row makes display_height negative, and Page-Down then
\* lowers current_line without end; the model starts at two rows
ViewRowChoices == (2..MaxRows) \cup {12}

\* a terminal as wide as the key help of line 338, and a wider one
ViewColChoices == {FooterLength, MaxCols}

ViewKeyChoices == {KEY_UP, KEY_DOWN, KEY_NPAGE, KEY_PPAGE, KEY_END, KEY_SLASH,
                   KEY_LF, 113}

\* no select_option is open
NoSelector ==
    /\ title = ""
    /\ options = <<>>
    /\ get_label = "identity"
    /\ include_back = FALSE
    /\ include_exit = FALSE
    /\ search_enabled = FALSE
    /\ skip_items = {}
    /\ original_options = <<>>
    /\ filtered_options = <<>>
    /\ search_query = <<>>
    /\ current_row = 0
    /\ scroll_pos = 0
    /\ max_visible_items = 0
    /\ visible_options = <<>>
    /\ key = NoKey
    /\ sel_pc = "idle"
    /\ result = None

\* main is not running
NoSession ==
    /\ nav_pc = "standalone"
    /\ level = "none"
    /\ environments = <<>>
    /\ jump_hosts = <<>>
    /\ selected_main = None
    /\ namespaces = <<>>
    /\ selected_namespace = None
    /\ selected_option = None
    /\ action = None
    /\ events = <<>>
    /\ jumphost_check = "none"

InitView ==
    /\ term_rows \in ViewRowChoices
    /\ term_cols \in ViewColChoices
    /\ terminal = "curses"
    /\ viewer_title = "text"
    /\ \E text \in TextChoices : lines = SplitLines(text)
    /\ current_line = 0
    /\ display_height = term_rows - 2
    /\ max_cols = term_cols
    /\ view_key = NoKey
    /\ view_query = <<>>
    /\ view_shown = <<>>
    /\ view_writes = <<>>
    /\ view_notice = FALSE
    /\ view_pc = "render"
    /\ NoSelector
    /\ NoSession

NextView ==
    \/ ViewRender
    \/ ViewGetch(ViewKeyChoices)
    \/ \E typed \in QueryChoices : ViewSearch(typed)
    \/ ViewGetstrRaises

SpecView == InitView /\ [][NextView]_vars

----------------------------------------------------------------------------
(* main: the menu session *)

\* line 430
DividerLine == [i \in 1..20 |-> "-"]

JumphostJit == <<"j", "u", "m", "p", "h", "o", "s", "t", " ", "j", "i", "t">>
Kubernetes == <<"k", "u", "b", "e", "r", "n", "e", "t", "e", "s">>
Mariadb == <<"m", "a", "r", "i", "a", "d", "b">>
Cassandra == <<"c", "a", "s", "s", "a", "n", "d", "r", "a">>
ShowPods == <<"s", "h", "o", "w", " ", "p", "o", "d", "s">>
ShowLogs == <<"s", "h", "o", "w", " ", "l", "o", "g", "s">>
DescribePod == <<"d", "e", "s", "c", "r", "i", "b", "e", " ", "p", "o", "d">>
ShowDeployments ==
    <<"s", "h", "o", "w", " ", "d", "e", "p", "l", "o", "y", "m", "e", "n", "t", "s">>
ScaleDeployments ==
    <<"s", "c", "a", "l", "e", " ", "d", "e", "p", "l", "o", "y", "m", "e", "n", "t", "s">>

\* line 485
KubernetesActions ==
    <<ShowPods, ShowLogs, DescribePod, ShowDeployments, ScaleDeployments>>

\* line 481
NamespaceOptions == <<Kubernetes, Mariadb, Cassandra>>

\* line 429: list(environments.keys())
EnvList(envs) == [i \in 1..Len(envs) |-> envs[i].name]

\* line 431
MainMenu(envs) == EnvList(envs) \o <<DividerLine, JumphostJit>>

\* line 452: environments[selected_main]
EnvOptions(envs, name) ==
    LET found == SelectSeq(envs, LAMBDA e : e.name = name)
    IN  IF found = <<>> THEN <<>> ELSE found[1].types

\* a call of select_option from main at the call site lvl
StartSelect(lvl, t, opts, f, back, exit, search, skip) ==
    /\ nav_pc' = "select"
    /\ level' = lvl
    /\ CallSelectOption(t, opts, f, back, exit, search, skip)

\* line 434
SelectMain ==
    StartSelect("main", "select environment", MainMenu(environments), "identity",
                FALSE, TRUE, FALSE, {DividerLine})

\* lines 452-454: env_options is the list that environments holds for the
\* environment, not a copy of it
SelectEnvType(name) ==
    /\ StartSelect("env_type", "select environment type", EnvOptions(environments, name),
                   "env_type", TRUE, FALSE, FALSE, {})
    /\ environments' =
          [i \in 1..Len(environments) |->
              IF environments[i].name = name
              THEN [environments[i] EXCEPT !.types = ArgumentAfterCall(@, TRUE, FALSE)]
              ELSE environments[i]]

\* line 477
SelectNamespace(ns) ==
    StartSelect("namespace", "select a kubernetes namespace", ns, "lower",
                TRUE, FALSE, TRUE, {})

\* line 487
SelectAction ==
    StartSelect("action", "kubernetes actions", KubernetesActions, "identity",
                TRUE, FALSE, FALSE, {})

\* the texts main shows: output of a command, several lines long
NavTextChoices == { TextSmall }

\* a call of display_text from main
StartViewer(t) ==
    /\ nav_pc' = "viewer"
    /\ \E text \in NavTextChoices : CallDisplayText(t, text)
    /\ UNCHANGED <<level, sel_vars>>

Returned(lvl) == nav_pc = "select" /\ level = lvl /\ sel_pc = "returned"

\* what main draws and calls outside select_option and display_text
\* lines 465-467: the frame "cloning or pulling repository..."
Placeholder == "placeholder"
\* line 468
CloneOrPullRepo == "clone_or_pull_repo"
\* lines 442, 460
GetExternalIp == "get_external_ip"
\* line 446
RunJit == "run_jit"
\* line 490
IsJumphostAvailable == "is_jumphost_available"
\* lines 494, 499, 515
RunKubectlGetPods == "run_kubectl_get_pods"
\* lines 509, 525, 533, 541, 555: subprocess.run of an ssh ... kubectl command
SshKubectl == "ssh_kubectl"

\* lines 435-454: the environment selector has returned
AfterSelectMain ==
    /\ Returned("main")
    /\ selected_main' = result
    /\ IF result = Exit THEN
            /\ nav_pc' = "done"
            /\ UNCHANGED <<level, sel_vars, environments>>
       ELSE IF result = JumphostJit THEN
            /\ StartSelect("jump_host", "select jump host", jump_hosts, "jump_host",
                           TRUE, FALSE, FALSE, {})
            /\ UNCHANGED environments
       ELSE SelectEnvType(result)
    /\ UNCHANGED <<term_rows, term_cols, terminal, jump_hosts, namespaces, selected_namespace,
                   selected_option, action, view_vars>>
    /\ events' = <<>>
    /\ UNCHANGED jumphost_check

\* lines 440-448: the jump host selector has returned; get_external_ip()
\* gives an address or None
AfterSelectJumpHost ==
    /\ Returned("jump_host")
    /\ IF result = GoBack THEN
            SelectMain /\ events' = <<>> /\ UNCHANGED view_vars
       ELSE \E external_ip \in {"None", "ip"} :
               IF external_ip = "None"
               THEN /\ StartViewer("external ip error")
                    /\ events' = <<GetExternalIp>>
               ELSE /\ StartViewer("jit for jump host")
                    /\ events' = <<GetExternalIp, RunJit>>
    /\ UNCHANGED <<term_rows, term_cols, terminal, environments, jump_hosts, selected_main,
                   namespaces, selected_namespace, selected_option, action,
                   jumphost_check>>

\* what find_kubernetes_namespaces() finds in the repository: a sorted list
NamespaceChoices == { <<>>, << <<"a", "l">>, <<"l", "a">> >> }

\* lines 458-463: get_external_ip() is called when the jump host key of the
\* environment type is a key of jump_hosts
JumphostLookup(in_jump_hosts) == IF in_jump_hosts THEN <<GetExternalIp>> ELSE <<>>

\* lines 455-477: the environment type selector has returned.
\* clone_or_pull_repo (lines 174-191) catches CalledProcessError only: what
\* os.makedirs raises, or subprocess.run when there is no git, goes up
\* through main.
AfterSelectEnvType ==
    /\ Returned("env_type")
    /\ IF result = GoBack THEN
            SelectMain /\ events' = <<>> /\ UNCHANGED namespaces
       ELSE /\ \E in_jump_hosts \in {b \in BOOLEAN : b => jump_hosts # <<>>} :
                  events' = JumphostLookup(in_jump_hosts) \o <<Placeholder, CloneOrPullRepo>>
            /\ \/ \E found \in NamespaceChoices :
                     IF found = <<>>
                     THEN /\ nav_pc' = "no_namespaces"
                          /\ namespaces' = found
                          /\ UNCHANGED <<level, sel_vars>>
                     ELSE /\ SelectNamespace(found)
                          /\ namespaces' = ArgumentAfterCall(found, TRUE, FALSE)
               \/ /\ nav_pc' = "raised"
                  /\ UNCHANGED <<level, sel_vars, namespaces>>
    /\ UNCHANGED <<term_rows, term_cols, terminal, environments, jump_hosts, selected_main,
                   selected_namespace, selected_option, action, view_vars,
                   jumphost_check>>

\* lines 474-475: a key ends the "no kubernetes namespaces" notice
NoNamespacesKey ==
    /\ nav_pc = "no_namespaces"
    /\ SelectMain
    /\ UNCHANGED <<term_rows, term_cols, terminal, environments, jump_hosts, selected_main,
                   namespaces, selected_namespace, selected_option, action, view_vars>>
    /\ events' = <<>>
    /\ UNCHANGED jumphost_check

\* lines 478-481: the namespace selector has returned
AfterSelectNamespace ==
    /\ Returned("namespace")
    /\ selected_namespace' = result
    /\ IF result = GoBack
       THEN SelectEnvType(selected_main)
       ELSE /\ StartSelect("option", "select an option", NamespaceOptions, "lower",
                           TRUE, FALSE, FALSE, {})
            /\ UNCHANGED environments
    /\ UNCHANGED <<term_rows, term_cols, terminal, jump_hosts, selected_main, namespaces,
                   selected_option, action, view_vars>>
    /\ events' = <<>>
    /\ UNCHANGED jumphost_check

\* lines 482-487 and 651: the option selector has returned
AfterSelectOption ==
    /\ Returned("option")
    /\ selected_option' = result
    /\ IF result = GoBack THEN SelectEnvType(selected_main)
       ELSE IF result = Kubernetes THEN SelectAction /\ UNCHANGED environments
       ELSE nav_pc' = "done" /\ UNCHANGED <<level, sel_vars, environments>>
    /\ UNCHANGED <<term_rows, term_cols, terminal, jump_hosts, selected_main, namespaces,
                   selected_namespace, action, view_vars>>
    /\ events' = <<>>
    /\ jumphost_check' = "none"

\* the names parsed from the output of kubectl get pods / get deploy
NameChoices == { <<>>, << <<"a", "l">> >> }

\* JumphostGuard that lets every action through
JumphostGuard_Never(available) == FALSE

\* line 490: if not is_jumphost_available(jumphost)
JumphostGuard(available) == ~available

\* lines 488-559 and 651: the action selector has returned;
\* is_jumphost_available() gives True or False
AfterSelectAction ==
    /\ Returned("action")
    /\ action' = result
    /\ IF result = GoBack THEN
            /\ nav_pc' = "done"
            /\ events' = <<>>
            /\ UNCHANGED <<level, sel_vars, view_vars, jumphost_check>>
       ELSE \E available \in BOOLEAN :
            /\ jumphost_check' = IF available THEN "ok" ELSE "failed"
            /\ IF JumphostGuard(available) THEN
                    /\ StartViewer("jumphost unavailable")
                    /\ events' = <<IsJumphostAvailable>>
               ELSE IF result = ShowPods THEN
                    /\ StartViewer("kubectl get pods output")
                    /\ events' = <<IsJumphostAvailable, RunKubectlGetPods>>
               ELSE IF result = ShowLogs THEN
                    /\ events' = <<IsJumphostAvailable, RunKubectlGetPods>>
                    /\ \E pods \in NameChoices :
                          IF pods = <<>> THEN StartViewer("show logs")
                          ELSE /\ StartSelect("pod_logs", "select a pod for logs", pods,
                                              "lower", TRUE, FALSE, TRUE, {})
                               /\ UNCHANGED view_vars
               ELSE IF result = DescribePod THEN
                    /\ events' = <<IsJumphostAvailable, RunKubectlGetPods>>
                    /\ \E pods \in NameChoices :
                          IF pods = <<>> THEN StartViewer("describe pod")
                          ELSE /\ StartSelect("pod_describe", "select a pod to describe",
                                              pods, "lower", TRUE, FALSE, TRUE, {})
                               /\ UNCHANGED view_vars
               ELSE IF result = ShowDeployments THEN
                    /\ StartViewer("deployments in")
                    /\ events' = <<IsJumphostAvailable, SshKubectl>>
               ELSE IF result = ScaleDeployments THEN
                    /\ events' = <<IsJumphostAvailable, SshKubectl>>
                    /\ \E deploy_names \in NameChoices :
                          IF deploy_names = <<>> THEN StartViewer("scale deployments")
                          ELSE /\ StartSelect("deployment", "select a deployment to scale",
                                              deploy_names, "lower", TRUE, FALSE, TRUE, {})
                               /\ UNCHANGED view_vars
               ELSE IF selected_option = Mariadb THEN
                    /\ StartViewer("database connection commands")
                    /\ events' = <<IsJumphostAvailable>>
               ELSE \* line 644 tests for "cassandra" where selected_option is "kubernetes"
                    /\ SelectAction
                    /\ events' = <<IsJumphostAvailable>>
                    /\ UNCHANGED view_vars
    /\ UNCHANGED <<term_rows, term_cols, terminal, environments, jump_hosts, selected_main,
                   namespaces, selected_namespace, selected_option>>

\* lines 505-513 and 521-529: a pod selector has returned
AfterSelectPod ==
    /\ \/ Returned("pod_logs")
       \/ Returned("pod_describe")
    /\ IF result = GoBack THEN
            /\ SelectAction
            /\ events' = <<>>
            /\ jumphost_check' = "none"
            /\ UNCHANGED view_vars
       ELSE /\ IF level = "pod_logs" THEN StartViewer("logs for pod")
               ELSE StartViewer("describe pod:")
            /\ events' = <<SshKubectl>>
            /\ UNCHANGED jumphost_check
    /\ UNCHANGED <<term_rows, term_cols, terminal, environments, jump_hosts, selected_main,
                   namespaces, selected_namespace, selected_option, action>>

\* lines 550-552: the deployment selector has returned; get_user_input
\* calls curses.echo() (line 290) and blocks in getstr (line 293)
AfterSelectDeployment ==
    /\ Returned("deployment")
    /\ IF result = GoBack THEN
            SelectAction /\ jumphost_check' = "none" /\ UNCHANGED terminal
       ELSE /\ nav_pc' = "replicas"
            /\ terminal' = "echo"
            /\ UNCHANGED <<level, sel_vars, jumphost_check>>
    /\ events' = <<>>
    /\ UNCHANGED <<term_rows, term_cols, environments, jump_hosts, selected_main, namespaces,
                   selected_namespace, selected_option, action, view_vars>>

\* lines 293-294 and 552-559: getstr returns the number of replicas and
\* curses.noecho() is called
ReplicasEntered ==
    /\ nav_pc = "replicas"
    /\ terminal' = "curses"
    /\ StartViewer("scale deployment:")
    /\ UNCHANGED <<term_rows, term_cols, environments, jump_hosts, selected_main, namespaces,
                   selected_namespace, selected_option, action>>
    /\ events' = <<SshKubectl>>
    /\ UNCHANGED jumphost_check

\* line 293: getstr is interrupted, or what was typed cannot be decoded;
\* the exception leaves get_user_input before curses.noecho() and main
\* catches it nowhere
ReplicasRaises ==
    /\ nav_pc = "replicas"
    /\ nav_pc' = "raised"
    /\ UNCHANGED <<term_rows, term_cols, terminal, sel_vars, view_vars, level, environments,
                   jump_hosts, selected_main, namespaces, selected_namespace,
                   selected_option, action>>
    /\ UNCHANGED <<events, jumphost_check>>

\* line 366: display_text returns on a key that neither scrolls nor searches;
\* lines 445, 448: after a viewer of the jump host branch main selects an
\* environment again; lines 492-559: after a viewer of the action loop the
\* loop selects an action again
DisplayTextReturns ==
    /\ nav_pc = "viewer"
    /\ view_pc = "returned"
    /\ IF level = "jump_host" THEN SelectMain ELSE SelectAction
    /\ viewer_title' = ""
    /\ lines' = <<>>
    /\ current_line' = 0
    /\ display_height' = 0
    /\ max_cols' = 0
    /\ view_key' = NoKey
    /\ view_query' = <<>>
    /\ view_shown' = <<>>
    /\ view_writes' = <<>>
    /\ view_notice' = FALSE
    /\ view_pc' = "idle"
    /\ UNCHANGED <<term_rows, term_cols, terminal, environments, jump_hosts, selected_main,
                   namespaces, selected_namespace, selected_option, action>>
    /\ events' = <<>>
    /\ jumphost_check' = "none"

\* an exception raised in display_text is caught nowhere in main
ViewRaises ==
    /\ nav_pc = "viewer"
    /\ view_pc = "raised"
    /\ nav_pc' = "raised"
    /\ UNCHANGED <<term_rows, term_cols, terminal, sel_vars, view_vars, level, environments,
                   jump_hosts, selected_main, namespaces, selected_namespace,
                   selected_option, action>>
    /\ UNCHANGED <<events, jumphost_check>>

\* an exception raised in select_option is caught nowhere in main
SelectRaises ==
    /\ nav_pc = "select"
    /\ sel_pc = "raised"
    /\ nav_pc' = "raised"
    /\ UNCHANGED <<term_rows, term_cols, terminal, sel_vars, level, environments,
                   jump_hosts, selected_main, namespaces, selected_namespace,
                   selected_option, action, view_vars>>
    /\ UNCHANGED <<events, jumphost_check>>

\* TerminalAfterWrapper without the finally clause of curses.wrapper: the
\* terminal is put back after a return only
TerminalAfterWrapper_NoFinally(pc, mode) == IF pc = "done" THEN "restored" ELSE mode

\* line 654: curses.wrapper(main) puts the terminal back (echo, nocbreak,
\* endwin) when main returns and when main raises
TerminalAfterWrapper(pc, mode) == "restored"

\* line 654: main has returned or raised, and curses.wrapper is left
WrapperExit ==
    /\ nav_pc \in {"done", "raised"}
    /\ terminal' = TerminalAfterWrapper(nav_pc, terminal)
    /\ nav_pc' = IF nav_pc = "done" THEN "exited" ELSE "crashed"
    /\ UNCHANGED <<term_rows, term_cols, sel_vars, view_vars, level, environments, jump_hosts,
                   selected_main, namespaces, selected_namespace, selected_option,
                   action>>
    /\ UNCHANGED <<events, jumphost_check>>

\* what config.ini holds: the environments, each with its environment types,
\* and the keys of the jump hosts
EnvDev == <<"d", "e", "v">>
TypeTest == <<"t", "e", "s", "t">>
TypeProd == <<"p", "r", "o", "d">>
JumpHostA == <<"j", "h">>

EnvironmentChoices == { <<>>, <<[name |-> EnvDev, types |-> <<TypeTest, TypeProd>>]>> }
JumpHostChoices == { <<>>, <<JumpHostA>> }

\* the terminals and the keys of a session
NavRowChoices == {5, MaxRows}
NavKeyChoices == {KEY_UP, KEY_DOWN, KEY_LF, KEY_BACKSPACE, 97, 108}
NavViewKeyChoices == {KEY_DOWN, KEY_NPAGE, KEY_SLASH, KEY_LF}
NavQueryChoices == { <<"a">>, <<"z">> }

\* lines 418-434: main up to its first frame
InitNav ==
    /\ term_rows \in NavRowChoices
    /\ term_cols = MaxCols
    /\ environments \in EnvironmentChoices
    /\ jump_hosts \in JumpHostChoices
    /\ nav_pc = "select"
    /\ level = "main"
    /\ selected_main = None
    /\ namespaces = <<>>
    /\ selected_namespace = None
    /\ selected_option = None
    /\ action = None
    /\ events = <<>>
    /\ jumphost_check = "none"
    /\ terminal = "curses"
    /\ NoViewer
    /\ title = "select environment"
    /\ options = MainMenu(environments)
    /\ get_label = "identity"
    /\ include_back = FALSE
    /\ include_exit = TRUE
    /\ search_enabled = FALSE
    /\ skip_items = {DividerLine}
    /\ original_options = WithSentinels(options, include_back, include_exit)
    /\ filtered_options = original_options
    /\ search_query = <<>>
    /\ current_row = 0
    /\ scroll_pos = 0
    /\ max_visible_items = term_rows - 4
    /\ visible_options = <<>>
    /\ key = NoKey
    /\ sel_pc = "render"
    /\ result = None

NextNav ==
    \/ Render
    \/ Getch(NavKeyChoices)
    \/ AfterSelectMain
    \/ AfterSelectJumpHost
    \/ AfterSelectEnvType
    \/ NoNamespacesKey
    \/ AfterSelectNamespace
    \/ AfterSelectOption
    \/ AfterSelectAction
    \/ AfterSelectPod
    \/ AfterSelectDeployment
    \/ ReplicasEntered
    \/ ReplicasRaises
    \/ ViewRender
    \/ ViewGetch(NavViewKeyChoices)
    \/ \E typed \in NavQueryChoices : ViewSearch(typed)
    \/ ViewGetstrRaises
    \/ DisplayTextReturns
    \/ ViewRaises
    \/ SelectRaises
    \/ WrapperExit

SpecNav == InitNav /\ [][NextNav]_vars

----------------------------------------------------------------------------
(* Properties of select_option, checked under Spec *)

\* a step of Getch: the key read is key'
KeyStep == sel_pc = "getch" /\ sel_pc' # "getch"

OnSkipItem ==
    /\ current_row < Len(filtered_options)
    /\ filtered_options[current_row + 1] \in skip_items

\* C3: after any sequence of Up, Down, printable and Backspace keys, the
\* filtered list is empty or 0 <= current_row < len(filtered_options).
C3_CursorBounds ==
    \/ filtered_options = <<>>
    \/ (0 <= current_row /\ current_row < Len(filtered_options))

\* Down has brought the cursor to the last row of a list narrowed by a query
C3_Witness ==
    /\ key = KEY_DOWN
    /\ search_query # <<>>
    /\ current_row > 0
    /\ current_row = Len(filtered_options) - 1

\* C4: with search enabled and the list filtered to empty, Enter raises
\* nothing, returns nothing, changes neither query, cursor, scroll offset nor
\* filtered list, and the selector goes on to its next frame.
C4_EnterInertOnEmptyFilter ==
    [][(/\ KeyStep
        /\ IsEnter(key')
        /\ search_enabled
        /\ original_options # <<>>
        /\ search_query # <<>>
        /\ filtered_options = <<>>)
         => /\ sel_pc' = "render"
            /\ result' = result
            /\ UNCHANGED <<search_query, current_row, scroll_pos, filtered_options>>]_vars

\* the label of opt contains the query, both lower-cased
MatchesQuery(opt) ==
    LET q == LowerStr(search_query)
        l == LowerStr(Label(get_label, opt))
    IN  \E i \in 1..(Len(l) - Len(q) + 1) : SubSeq(l, i, i + Len(q) - 1) = q

\* the items of s that match the query, in the order of s
RECURSIVE Matching(_)
Matching(s) ==
    IF s = <<>> THEN <<>>
    ELSE IF MatchesQuery(Head(s)) THEN <<Head(s)>> \o Matching(Tail(s))
    ELSE Matching(Tail(s))

\* C5: after every character appended to or removed from the query,
\* filtered_options is the subsequence of the full list (sentinels included)
\* whose lower-cased label contains the lower-cased query, in the original
\* order; with the empty query it is the full list.
C5_FilterCorrect ==
    /\ filtered_options = Matching(original_options)
    /\ search_query = <<>> => filtered_options = original_options

\* a Backspace has left a query that keeps some items and drops others
C5_Witness ==
    /\ IsBackspace(key)
    /\ search_query # <<>>
    /\ filtered_options # <<>>
    /\ Len(filtered_options) < Len(original_options)

\* C6: with at least one visible row, after each frame
\* scroll_pos <= current_row < scroll_pos + max_visible_items.
C6_ScrollWindow ==
    (sel_pc = "getch" /\ max_visible_items >= 1)
        => (scroll_pos <= current_row /\ current_row < scroll_pos + max_visible_items)

\* a frame drawn after the window has scrolled down
C6_Witness ==
    /\ sel_pc = "getch"
    /\ max_visible_items >= 1
    /\ scroll_pos > 0
    /\ current_row = scroll_pos + max_visible_items - 1

\* C7: Up or Down never leaves the cursor on a skip item when the filtered
\* list holds a non-skip item further in the direction of the movement.
C7_SkipNonResting ==
    /\ (key = KEY_UP /\ OnSkipItem)
         => \A i \in 1..current_row : filtered_options[i] \in skip_items
    /\ (key = KEY_DOWN /\ OnSkipItem)
         => \A i \in (current_row + 2)..Len(filtered_options) :
                filtered_options[i] \in skip_items

\* Up has carried the cursor over a run of two skip items to a real item
C7_Witness ==
    /\ key = KEY_UP
    /\ current_row + 3 <= Len(filtered_options)
    /\ filtered_options[current_row + 1] \notin skip_items
    /\ filtered_options[current_row + 2] \in skip_items
    /\ filtered_options[current_row + 3] \in skip_items

\* C8: when the selector starts on a list whose first entry is a skip item
\* and that holds a non-skip item, the initial cursor is on a non-skip item.
C8_InitialCursorNotOnSkip ==
    (/\ key = NoKey
     /\ sel_pc = "getch"
     /\ filtered_options # <<>>
     /\ filtered_options[1] \in skip_items
     /\ \E i \in 1..Len(filtered_options) : filtered_options[i] \notin skip_items)
        => ~OnSkipItem

\* C9: Enter on a skip item changes no selector state and does not return;
\* Enter on a non-skip item returns filtered_options[current_row]; the value
\* returned is never a skip item.
C9_EnterConfirms ==
    /\ [][(KeyStep /\ IsEnter(key') /\ current_row < Len(filtered_options))
            => IF filtered_options[current_row + 1] \in skip_items
               THEN /\ sel_pc' = "render"
                    /\ UNCHANGED <<original_options, filtered_options, search_query,
                                   current_row, scroll_pos, max_visible_items,
                                   visible_options, result>>
               ELSE /\ sel_pc' = "returned"
                    /\ result' = filtered_options[current_row + 1]]_vars
    /\ [](sel_pc = "returned" => result \notin skip_items)

\* Enter was pressed on a skip item and the selector goes on
C9_Witness ==
    /\ sel_pc = "render"
    /\ IsEnter(key)
    /\ OnSkipItem

\* C10: called with zero items and neither sentinel, select_option reads no
\* key: it returns at once, with no selection.
C10_EmptySelectionReturnsAtOnce ==
    (options = <<>> /\ ~include_back /\ ~include_exit)
        => /\ sel_pc # "getch"
           /\ key = NoKey
           /\ sel_pc \in {"returned", "raised"} => (sel_pc = "returned" /\ result = None)

\* C15: the list select_option works on is the caller's items with "Go Back"
\* put in front when include_back is set and "Exit" put at the end when
\* include_exit is set, and nothing else; with both set and no items it is
\* exactly <<"Go Back", "Exit">>, and Enter on either returns that sentinel.
C15_FullItemList ==
    /\ [](sel_pc # "idle" =>
            original_options = (IF include_back THEN <<GoBack>> ELSE <<>>) \o options
                                  \o (IF include_exit THEN <<Exit>> ELSE <<>>))
    /\ []((sel_pc # "idle" /\ include_back /\ include_exit /\ options = <<>>)
             => original_options = <<GoBack, Exit>>)
    /\ [][(KeyStep /\ IsEnter(key') /\ include_back /\ include_exit
              /\ options = <<>> /\ current_row < Len(filtered_options))
            => /\ sel_pc' = "returned"
               /\ result' = filtered_options[current_row + 1]
               /\ result' \in {GoBack, Exit}]_vars

\* with no items and both sentinels, Enter on the second row has returned "Exit"
C15_Witness ==
    /\ options = <<>>
    /\ include_back
    /\ include_exit
    /\ sel_pc = "returned"
    /\ current_row = 1
    /\ result = Exit

\* a step of Render: one frame is drawn
FrameStep == sel_pc = "render" /\ sel_pc' # "render"

\* C19: the number of rows a frame shows is computed from the height the
\* terminal has at that frame: after the height has changed between two
\* frames, the window and the scroll_pos clamp of the next frame use the
\* new height.
C19_WindowFollowsTerminal ==
    [][FrameStep =>
          LET rows == term_rows - 4
          IN  /\ scroll_pos' = ScrollFor(current_row, scroll_pos, rows)
              /\ visible_options' =
                     PySlice(filtered_options, scroll_pos', scroll_pos' + rows)]_vars

\* C20: on a terminal so small that the selector has no row for an item, or
\* the viewer no row for a line, select_option and display_text show the
\* title only and wait for a key that dismisses them: no item and no line
\* is drawn, no scroll position or index is out of range, nothing is
\* raised, and select_option returns no item.
C20_TooSmallShowsTitleOnly ==
    /\ (sel_pc # "idle" /\ max_visible_items <= 0) =>
          /\ visible_options = <<>>
          /\ 0 <= scroll_pos /\ scroll_pos <= Max(0, Len(filtered_options) - 1)
          /\ sel_pc # "raised"
          /\ sel_pc = "returned" => ~InList(result, original_options)
    /\ (view_pc # "idle" /\ display_height <= 0) =>
          /\ view_shown = <<>>
          /\ 0 <= current_line /\ current_line <= Max(0, Len(lines) - 1)
          /\ view_pc # "raised"

\* the selector of the scenario: items alpha, beta, gamma, labels as they
\* are, search enabled, no sentinel
ScenarioAlphaBetaGamma ==
    /\ sel_pc # "idle"
    /\ options = <<Alpha, Beta, Gamma>>
    /\ get_label = "identity"
    /\ search_enabled
    /\ ~include_back
    /\ ~include_exit

\* C21 as stated: with items alpha, beta, gamma, labels as they are and
\* search enabled, typing "a" gives the filtered list <<alpha, gamma>> with
\* the cursor at 0, and typing "l" then gives <<alpha>>.
C21_ScenarioAsStated ==
    ScenarioAlphaBetaGamma =>
        /\ search_query = <<"a">> =>
               /\ filtered_options = <<Alpha, Gamma>>
               /\ key = 97 => current_row = 0
        /\ search_query = <<"a", "l">> => filtered_options = <<Alpha>>

\* C21, amended: with items alpha, beta, gamma, labels as they are and
\* search enabled, typing "a" gives the filtered list <<alpha, beta, gamma>>,
\* as "beta" holds an "a" too, with the cursor at 0, and typing "l" then
\* gives <<alpha>>.
C21_ScenarioAmended ==
    ScenarioAlphaBetaGamma =>
        /\ search_query = <<"a">> =>
               /\ filtered_options = <<Alpha, Beta, Gamma>>
               /\ key = 97 => current_row = 0
        /\ search_query = <<"a", "l">> => filtered_options = <<Alpha>>

\* "a" and then "l" have been typed
C21_Witness ==
    /\ ScenarioAlphaBetaGamma
    /\ search_query = <<"a", "l">>
    /\ key = 108
    /\ filtered_options = <<Alpha>>
    /\ current_row = 0

\* C22: every key other than Enter leaves select_option running, which
\* returns in response to Enter only; a key that is not Up, Down or Enter,
\* and not a printable character or Backspace while search is enabled,
\* leaves query, filtered list, cursor and scroll offset as they are, so
\* printable characters and Backspace change nothing when search is
\* disabled.
C22_OtherKeysIgnored ==
    [][KeyStep =>
          LET enter == key' \in {KEY_ENTER, KEY_LF, KEY_CR}
              edits == \/ 32 <= key' /\ key' <= 126
                       \/ key' \in {KEY_BACKSPACE, KEY_DEL}
          IN  /\ ~enter => sel_pc' = "render"
              /\ sel_pc' = "returned" => enter
              /\ (~enter /\ key' \notin {KEY_UP, KEY_DOWN} /\ ~(search_enabled /\ edits))
                    => UNCHANGED <<search_query, filtered_options, current_row,
                                   scroll_pos>>]_vars

\* a letter was pressed with search disabled and the cursor has stayed on
\* its row
C22_Witness ==
    /\ ~search_enabled
    /\ sel_pc = "render"
    /\ key = 97
    /\ current_row > 0

\* C23: with search enabled, every printable key (codes 32 to 126) appends
\* its character to the query and every Backspace drops the last character
\* of the query, doing nothing to the empty query; after either edit cursor
\* and scroll offset are 0.
C23_QueryEdits ==
    [][(KeyStep /\ search_enabled) =>
          /\ (32 <= key' /\ key' <= 126) =>
                /\ search_query' = search_query \o <<Ascii[key' - 31]>>
                /\ current_row' = 0
                /\ scroll_pos' = 0
          /\ key' \in {KEY_BACKSPACE, KEY_DEL} =>
                /\ search_query' = (IF search_query = <<>> THEN <<>>
                                    ELSE SubSeq(search_query, 1, Len(search_query) - 1))
                /\ current_row' = 0
                /\ scroll_pos' = 0]_vars

\* Backspace has taken the "~" off the query "a~", which kept no item
C23_Witness ==
    /\ search_enabled
    /\ sel_pc = "render"
    /\ key = KEY_BACKSPACE
    /\ search_query = <<"a">>
    /\ options = <<Alpha, Beta, Gamma>>
    /\ visible_options = <<>>
    /\ Len(filtered_options) > 1
    /\ current_row = 0

----------------------------------------------------------------------------
(* Properties of main, checked under SpecNav *)

\* the menu from which the menu of a call site is entered
Parent(lvl) ==
    CASE lvl = "jump_host" -> "main"
      [] lvl = "env_type" -> "main"
      [] lvl = "namespace" -> "env_type"
      [] lvl = "option" -> "namespace"
      [] lvl = "action" -> "option"
      [] lvl \in {"pod_logs", "pod_describe", "deployment"} -> "action"
      [] OTHER -> "none"

\* C1: "Go Back" selected in the selector of menu level N returns control to
\* the selector of level N-1, the menu from which level N was entered: no
\* level is skipped and the session does not end.
C1_GoBackUnwindsOneLevel ==
    [][(nav_pc = "select" /\ sel_pc = "returned" /\ result = GoBack)
         => /\ nav_pc' = "select"
            /\ sel_pc' = "render"
            /\ level' = Parent(level)]_vars

\* C2: main returns only when "Exit" is selected in the 'select environment'
\* selector; no selection, Go Back or viewer dismissal at a deeper level
\* ends the session.
C2_ReturnsOnlyOnExit ==
    nav_pc = "done" => (level = "main" /\ result = Exit)

\* a step that calls select_option
CallStep == sel_pc # "getch" /\ sel_pc' = "render"

\* how often x occurs in the list s
Count(x, s) == Cardinality({i \in 1..Len(s) : s[i] = x})

\* C16: calling select_option any number of times with include_back set on
\* the same list of the caller never gives a working list that holds
\* "Go Back" more than once, and every call leaves the caller's list as it
\* was.
C16_GoBackOnceCallerListKept ==
    /\ []((nav_pc = "select" /\ include_back) => Count(GoBack, original_options) <= 1)
    /\ [][CallStep =>
             /\ environments' = environments
             /\ level' = "env_type" => options' = EnvOptions(environments, selected_main')
             /\ level' = "namespace" => namespaces' = options']_vars

\* the environment type selector is called again on the list of the same
\* environment, after "Go Back" in the namespace selector
C16_Witness ==
    /\ nav_pc = "select"
    /\ level = "env_type"
    /\ sel_pc = "render"
    /\ key = NoKey
    /\ selected_namespace = GoBack
    /\ Count(GoBack, original_options) = 1
    /\ ~InList(GoBack, EnvOptions(environments, selected_main))

\* C17: every invocation of select_option starts with an empty query, the
\* cursor at 0, the scroll offset at 0 and the filtered list equal to the
\* full list, whatever an earlier invocation ended with, one at the same
\* menu level included.
C17_FreshStatePerCall ==
    [][CallStep =>
          /\ search_query' = <<>>
          /\ current_row' = 0
          /\ scroll_pos' = 0
          /\ filtered_options' = original_options'
          /\ original_options' = WithSentinels(options', include_back', include_exit')]_vars

\* the action selector is open again, after the invocation before ended
\* with the cursor on its last item, "scale deployments"
C17_Witness ==
    /\ nav_pc = "select"
    /\ level = "action"
    /\ action = ScaleDeployments
    /\ sel_pc = "render"
    /\ key = NoKey
    /\ current_row = 0
    /\ scroll_pos = 0

\* C18: the terminal taken at the start of the session is put back on every
\* way out: when main returns after Exit, and when an error raised in the
\* selector, in the viewer or in a call of an external collaborator ends
\* the session.
C18_TerminalRestored ==
    /\ nav_pc \in {"exited", "crashed"} => terminal = "restored"
    /\ nav_pc \notin {"exited", "crashed"} => terminal \in {"curses", "echo"}

\* the session has ended on an error raised in get_user_input, called by
\* the viewer with the terminal echoing
C18_Witness ==
    /\ nav_pc = "crashed"
    /\ view_pc = "raised"
    /\ terminal = "restored"

\* C27: selecting "mariadb" in the "select an option" menu leads to the
\* "database connection commands" viewer, before any other menu is shown
\* and before the session ends.
C27_MariadbShowsConnectionCommands ==
    [][(Returned("option") /\ result = Mariadb) =>
          /\ nav_pc' = "viewer"
          /\ viewer_title' = "database connection commands"]_vars

\* the calls that block the session for long: the clone or pull of the
\* repository and the commands run over ssh
LongCalls == {CloneOrPullRepo, RunKubectlGetPods, SshKubectl}

\* C25: in the session every long-running external call (clone or pull of
\* the repository, a kubectl command over ssh) comes immediately after a
\* placeholder frame drawn in the same step of main, with no key read and no
\* other call in between
C25_PlaceholderBeforeLongCall ==
    \A i \in 1..Len(events) :
        events[i] \in LongCalls => i > 1 /\ events[i - 1] = Placeholder

\* the commands run on the cluster through the jump host
RemoteCommands == {RunKubectlGetPods, SshKubectl}

\* C28: in the action loop a remote command is run only when the
\* reachability check of the same turn of the loop succeeded; when the check
\* fails main runs no remote command and shows the "jumphost unavailable"
\* viewer, and when that viewer returns the action menu is open again
C28_RemoteOnlyWhenReachable ==
    /\ [](\A i \in 1..Len(events) :
             events[i] \in RemoteCommands => jumphost_check = "ok")
    /\ [](jumphost_check = "failed" =>
             /\ events = <<IsJumphostAvailable>>
             /\ viewer_title = "jumphost unavailable"
             /\ nav_pc \in {"viewer", "raised", "crashed"})
    /\ [][jumphost_check = "failed" /\ nav_pc = "viewer" /\ nav_pc' # "viewer"
              /\ nav_pc' # "raised" =>
              /\ nav_pc' = "select"
              /\ level' = "action"
              /\ title' = "kubernetes actions"
              /\ sel_pc' = "render"
              /\ events' = <<>>]_vars

\* the scale command has run, two selectors and a prompt after the check
\* that succeeded, and its output is on the screen
C28_Witness ==
    /\ jumphost_check = "ok"
    /\ events = <<SshKubectl>>
    /\ viewer_title = "scale deployment:"
    /\ view_pc = "getch"

----------------------------------------------------------------------------
(* Properties of display_text, checked under SpecView *)

\* a step of ViewGetch: the key read is view_key'
ViewKeyStep == view_pc = "getch" /\ view_pc' # "getch"

\* a step of ViewSearch: the query typed is view_query'
SearchStep == view_pc = "getstr" /\ view_pc' = "render"

\* C11: in display_text, after any sequence of Up, Down, Page-Up, Page-Down,
\* End and '/'-search keys, 0 <= current_line <= max(0, len(lines) -
\* display_height).
C11_TopLineBounds ==
    view_pc \in {"render", "getch", "getstr", "returned"} =>
        /\ 0 <= current_line
        /\ current_line <= Max(0, Len(lines) - display_height)

\* the keys that scroll or search
ScrollKeys == {KEY_UP, KEY_DOWN, KEY_PPAGE, KEY_NPAGE, KEY_END, KEY_SLASH}

\* C12: display_text returns exactly when a key other than Up, Down,
\* Page-Up, Page-Down, End or '/' is pressed; each of those six keys keeps
\* the viewer open in every state, Up at the first line and Down at the
\* last page included, where current_line stays as it is.
C12_ReturnsOnOtherKeysOnly ==
    [][ViewKeyStep =>
          /\ (view_pc' = "returned") <=> (view_key' \notin ScrollKeys)
          /\ (view_key' = KEY_UP /\ current_line = 0) => current_line' = 0
          /\ (view_key' = KEY_DOWN /\ current_line >= Len(lines) - display_height)
                 => current_line' = current_line]_vars

\* line i of the text, counted from 0, holds the query q, both lower-cased
LineHolds(i, q) == StrContains(LowerStr(q), LowerStr(lines[i + 1]))

\* C13: a '/'-search issued while current_line = k either sets current_line
\* to the smallest index i >= k whose line contains the query, compared
\* case-insensitively, or, when there is no such line, leaves current_line
\* at k, shows the not-found notice and keeps the viewer open; it never
\* lands before k.
C13_SearchForward ==
    [][SearchStep =>
          LET k == current_line
              hits == {i \in k..(Len(lines) - 1) : LineHolds(i, view_query')}
          IN  /\ current_line' >= k
              /\ view_pc' = "render"
              /\ IF hits # {}
                 THEN /\ current_line' \in hits
                      /\ \A i \in hits : current_line' <= i
                      /\ ~view_notice'
                 ELSE /\ current_line' = k
                      /\ view_notice']_vars

\* the query "B" is searched from the last line of "a\nB\nc\nab\nc": the
\* lines that hold it lie before, and the search reports that it found none
C13_Witness ==
    /\ view_pc = "render"
    /\ view_key = KEY_SLASH
    /\ view_query = <<"B">>
    /\ current_line = 4
    /\ Len(lines) = 5
    /\ view_notice

\* C14: with page height h and a text of n lines, Page-Down sets
\* current_line to min(current_line + h, max(0, n - h)), Page-Up to
\* max(current_line - h, 0) and End to max(0, n - h); from line 0 with
\* n = 50 and h = 10, five Page-Down presses leave current_line at 40.
C14_PageKeys ==
    [][ViewKeyStep =>
          LET h == display_height
              n == Len(lines)
              cap == IF n - h > 0 THEN n - h ELSE 0
          IN  /\ view_key' = KEY_NPAGE =>
                     current_line' = (IF current_line + h < cap THEN current_line + h
                                      ELSE cap)
              /\ view_key' = KEY_PPAGE =>
                     current_line' = (IF current_line - h > 0 THEN current_line - h
                                      ELSE 0)
              /\ view_key' = KEY_END => current_line' = cap
              /\ PageDownLine(PageDownLine(PageDownLine(PageDownLine(
                     PageDownLine(0, 50, 10), 50, 10), 50, 10), 50, 10), 50, 10) = 40
              /\ (n = 50 /\ h = 10 /\ current_line \in {30, 40}
                     /\ view_key' = KEY_NPAGE) => current_line' = 40]_vars

\* Page-Down has brought a text of 50 lines on pages of 10 to line 40
C14_Witness ==
    /\ view_pc = "render"
    /\ view_key = KEY_NPAGE
    /\ Len(lines) = 50
    /\ display_height = 10
    /\ current_line = 40

\* C26: from every reachable state of display_text, those reached by a
\* '/'-search included, Page-Down and End never lower current_line and
\* Page-Up never raises it.
C26_PageKeysMonotone ==
    [][ViewKeyStep =>
          /\ view_key' \in {KEY_NPAGE, KEY_END} => current_line' >= current_line
          /\ view_key' = KEY_PPAGE => current_line' <= current_line]_vars

\* C24: in display_text every write of line text starts at a column below
\* the width of the terminal and ends before it: whatever the line and
\* wherever the words error, warning and success stand in it, no plain and
\* no highlighted segment is written at or beyond the last column.
C24_WritesWithinWidth ==
    \A i \in 1..Len(view_writes) :
        /\ view_writes[i].col < max_cols
        /\ view_writes[i].col + Len(view_writes[i].text) <= max_cols - 1

====
